---- MODULE Spec2Model ----
(***************************************************************************)
(* Model of the hand-lifecycle engine of poker/engine.py: Game.play_hand,  *)
(* Game.post_blind, Game.betting_round, Game.validate_action,              *)
(* Game.showdown, Game.award_pot and Game.log_hand_results.                *)
(*                                                                         *)
(* Seats are the indices 0..n-1 of Game.players.  An Action object is a    *)
(* record [action_type, player, amount, round_name].  Python's None is -1  *)
(* for last_raiser and NoAction for an Action reference.                   *)
(***************************************************************************)
EXTENDS Integers, Sequences, FiniteSets, TLC

\* ------------------------------------------------------------------------
\* Bounds of the model and program constants
\* ------------------------------------------------------------------------

\* Largest number of decisions requested within one hand.
MaxActions == 4

\* Game.__init__ defaults.
small_blind == 5
big_blind == 10

\* Number of cards of a new Deck: one per rank and suit.
DeckSize == 52

\* Sizes of Game.players at construction.
SeatCounts == {2, 3}

\* Stacks a seat can be constructed with.
StackChoices == {5, 30}

\* Amounts a decision provider puts in a BET or RAISE.
AmountChoices == {5, 10, 20}

\* HandEvaluator scores the shuffled deck can give a seat at showdown.
ScoreChoices == {0, 1}

\* Inputs of the validator taken on its own.
VChipChoices == {0, 5, 10, 30, 50}
VBetChoices == {0, 5, 10}
VCurrentBetChoices == {0, 10, 20, 100}
VAmountChoices == {0, 5, 10, 25, 30, 50, 100}

ActionTypes == {"FOLD", "CHECK", "CALL", "BET", "RAISE", "ALL_IN"}

NoAction == [action_type |-> "NONE", player |-> -1, amount |-> 0, round_name |-> ""]

VARIABLES
    players,                \* Game.players: the seat each entry had at construction
    chips,                  \* Agent.chips of every seat
    player_bet,             \* Agent.current_bet of every seat
    folded,                 \* Agent.folded of every seat
    pot,                    \* Game.pot
    current_bet,            \* Game.current_bet
    dealer_idx,             \* Game.dealer_idx
    current_round,          \* Game.current_round
    action_history,         \* Game.info_set.action_history
    initial_total_chips,    \* Game.initial_total_chips
    chip_accounting_errors, \* Game.stats["chip_accounting_errors"]
    small_blind_idx,        \* play_hand local
    big_blind_idx,          \* play_hand local
    start_idx,              \* betting_round parameter
    current_idx,            \* betting_round local
    last_raiser,            \* betting_round local
    acted_since_last_raise, \* betting_round local
    starting_total_chips,   \* betting_round local
    active_players,         \* betting_round local
    deck,                   \* Game.deck.cards
    hands,                  \* Agent.hand of every seat
    community_cards,        \* Game.community_cards
    game_state_log,         \* what log_game_state was handed, call by call
    deal_count,             \* argument of the last Deck.deal called on its own
    dealt_cards,            \* what that call returned
    deal_error,             \* whether that call raised ValueError
    starting_chips,         \* play_hand local
    hand_scores,            \* showdown local: HandEvaluator.evaluate per seat
    proposed,               \* the Action object returned by make_decision
    validated,              \* the Action object returned by validate_action
    revalidated,            \* validate_action applied to its own result
    pc                      \* position in play_hand / betting_round

vars == <<players, chips, player_bet, folded, pot, current_bet, dealer_idx,
          current_round, action_history, initial_total_chips,
          chip_accounting_errors, small_blind_idx, big_blind_idx, start_idx,
          current_idx, last_raiser, acted_since_last_raise,
          starting_total_chips, active_players, deck, hands, community_cards,
          game_state_log, deal_count, dealt_cards, deal_error,
          starting_chips, hand_scores,
          proposed, validated, revalidated, pc>>

playerVars == <<chips, player_bet, folded>>
roundVars == <<current_idx, last_raiser, acted_since_last_raise, starting_total_chips,
               active_players>>
cardVars == <<deck, hands, community_cards>>
dealVars == <<deal_count, dealt_cards, deal_error>>
handVars == <<dealer_idx, initial_total_chips, small_blind_idx, big_blind_idx, starting_chips>>
decisionVars == <<proposed, validated, revalidated>>

\* ------------------------------------------------------------------------
\* Helpers
\* ------------------------------------------------------------------------

NumPlayers == Cardinality(DOMAIN chips)
Seats == DOMAIN chips

Min(a, b) == IF a < b THEN a ELSE b
Max(a, b) == IF a > b THEN a ELSE b

RECURSIVE SumOver(_, _)
SumOver(f, S) ==
    IF S = {} THEN 0
    ELSE LET x == CHOOSE y \in S : TRUE IN f[x] + SumOver(f, S \ {x})

SumChips(c) == SumOver(c, DOMAIN c)

Action(t, p, a, r) == [action_type |-> t, player |-> p, amount |-> a, round_name |-> r]


\* ------------------------------------------------------------------------
\* Game.validate_action
\* ------------------------------------------------------------------------

\* The minimum raise without the big blind added.
min_raise_no_blind(info_set) == info_set.current_bet

\* "Minimum raise is current bet + big blind"
min_raise(info_set) == info_set.current_bet + big_blind

\* The fields validate_action writes on validated_action, the deep copy of
\* the proposed action; player is [chips, current_bet, folded], info_set is
\* [current_bet].
validated_fields(action, player, info_set) ==
    CASE action.action_type = "BET" ->
            LET min_bet == big_blind
                amount1 == IF action.amount < min_bet THEN min_bet ELSE action.amount
            IN  IF action.amount > player.chips
                THEN [action EXCEPT !.action_type = "ALL_IN",
                                    !.amount = player.chips + player.current_bet]
                ELSE [action EXCEPT !.amount = amount1]
      [] action.action_type = "RAISE" ->
            LET amount1 == IF action.amount < min_raise(info_set)
                           THEN min_raise(info_set) ELSE action.amount
                additional_amount == action.amount - player.current_bet
            IN  IF additional_amount > player.chips
                THEN [action EXCEPT !.action_type = "ALL_IN",
                                    !.amount = player.chips + player.current_bet]
                ELSE [action EXCEPT !.amount = amount1]
      [] action.action_type = "CALL" ->
            LET call_amount == info_set.current_bet - player.current_bet
            IN  IF player.chips = 0
                THEN [action EXCEPT !.amount = 0]
                ELSE IF call_amount = 0
                THEN [action EXCEPT !.action_type = "CHECK", !.amount = 0]
                ELSE IF call_amount > player.chips
                THEN [action EXCEPT !.action_type = "ALL_IN",
                                    !.amount = player.chips + player.current_bet]
                ELSE [action EXCEPT !.amount = info_set.current_bet]
      [] action.action_type = "ALL_IN" ->
            [action EXCEPT !.amount = player.chips + player.current_bet]
      [] OTHER -> action

\* validate_action writing to the Action object it was handed instead of a
\* copy of it.
validate_action_in_place(action, player, info_set) ==
    [action           |-> validated_fields(action, player, info_set),
     player           |-> player,
     validated_action |-> validated_fields(action, player, info_set)]

\* validate_action as a transformer of the objects it is handed: the
\* proposed Action object, the seat, and the returned Action object.  The
\* code writes only to copy.deepcopy(action).
validate_action(action, player, info_set) ==
    [action           |-> action,
     player           |-> player,
     validated_action |-> validated_fields(action, player, info_set)]

PlayerOf(i) == [chips |-> chips[i], current_bet |-> player_bet[i], folded |-> folded[i]]

\* Game.build_information_set for the seat about to decide.
build_information_set(i) ==
    [action_history  |-> action_history,
     community_cards |-> community_cards,
     current_bet     |-> current_bet,
     pot             |-> pot,
     dealer_position |-> dealer_idx,
     current_round   |-> current_round,
     min_call_amount |-> current_bet - player_bet[i],
     player_states   |-> [j \in Seats |->
                            [chips       |-> chips[j],
                             current_bet |-> player_bet[j],
                             folded      |-> folded[j],
                             is_active   |-> (j = i),
                             is_dealer   |-> (j = dealer_idx),
                             hand        |-> hands[j]]]]

\* ------------------------------------------------------------------------
\* Game.betting_round: processing of one validated action
\* ------------------------------------------------------------------------

\* What one branch of "Process action" leaves behind: the seat arrays, the
\* pot, the table's bet, the two tracking locals and the Action object that
\* was appended to the history (the branch writes to that same object).
Outcome(c, b, f, p, cb, lr, acted, a) ==
    [chips |-> c, player_bet |-> b, folded |-> f, pot |-> p, current_bet |-> cb,
     last_raiser |-> lr, acted_since_last_raise |-> acted, action |-> a]

process_fold(action, idx) ==
    Outcome(chips, player_bet, [folded EXCEPT ![idx] = TRUE], pot, current_bet,
            last_raiser, acted_since_last_raise \cup {idx}, action)

process_check(action, idx) ==
    IF current_bet > player_bet[idx]
    THEN LET amount == current_bet - player_bet[idx]
         IN  Outcome([chips EXCEPT ![idx] = @ - amount],
                     [player_bet EXCEPT ![idx] = @ + amount],
                     folded, pot + amount, current_bet, last_raiser,
                     acted_since_last_raise \cup {idx},
                     [action EXCEPT !.action_type = "CALL", !.amount = amount])
    ELSE Outcome(chips, player_bet, folded, pot, current_bet, last_raiser,
                 acted_since_last_raise \cup {idx}, action)

process_call(action, idx) ==
    LET min_call_amount == Max(0, current_bet - player_bet[idx])
        call_amount == Min(min_call_amount, chips[idx])
        recorded ==
            IF call_amount = chips[idx] /\ call_amount < min_call_amount
            THEN [action EXCEPT !.action_type = "ALL_IN", !.amount = call_amount]
            ELSE [action EXCEPT !.amount = call_amount]
    IN  Outcome([chips EXCEPT ![idx] = @ - call_amount],
                [player_bet EXCEPT ![idx] = @ + call_amount],
                folded, pot + call_amount, current_bet, last_raiser,
                acted_since_last_raise \cup {idx}, recorded)

process_bet_raise(action, idx) ==
    LET amount1 ==
            IF action.action_type = "BET"
            THEN (IF action.amount < big_blind THEN big_blind ELSE action.amount)
            ELSE (IF action.amount < current_bet + big_blind
                  THEN current_bet + big_blind ELSE action.amount)
        additional_amount == Min(amount1 - player_bet[idx], chips[idx])
        total_amount == player_bet[idx] + additional_amount
    IN  IF additional_amount >= chips[idx]
        THEN LET new_bet == player_bet[idx] + chips[idx]
                 raises == new_bet > current_bet
             IN  Outcome([chips EXCEPT ![idx] = 0],
                         [player_bet EXCEPT ![idx] = new_bet],
                         folded, pot + chips[idx],
                         IF raises THEN new_bet ELSE current_bet,
                         IF raises THEN idx ELSE last_raiser,
                         IF raises THEN {idx} ELSE acted_since_last_raise \cup {idx},
                         [action EXCEPT !.action_type = "ALL_IN", !.amount = new_bet])
        ELSE Outcome([chips EXCEPT ![idx] = @ - additional_amount],
                     [player_bet EXCEPT ![idx] = total_amount],
                     folded, pot + additional_amount, total_amount, idx, {idx},
                     [action EXCEPT !.amount = total_amount])

\* The ALL_IN branch adding the seat's total contribution to the pot, not
\* only the chips it pushes in now.
process_all_in_total(action, idx) ==
    LET additional_amount == chips[idx]
        new_bet == player_bet[idx] + additional_amount
        raises == new_bet > current_bet
    IN  Outcome([chips EXCEPT ![idx] = 0],
                [player_bet EXCEPT ![idx] = new_bet],
                folded, pot + new_bet,
                IF raises THEN new_bet ELSE current_bet,
                IF raises THEN idx ELSE last_raiser,
                IF raises THEN {idx} ELSE acted_since_last_raise \cup {idx},
                [action EXCEPT !.amount = additional_amount])

process_all_in(action, idx) ==
    LET all_in_amount == chips[idx]
        additional_amount == all_in_amount
        new_bet == player_bet[idx] + additional_amount
        raises == new_bet > current_bet
    IN  Outcome([chips EXCEPT ![idx] = 0],
                [player_bet EXCEPT ![idx] = new_bet],
                folded, pot + additional_amount,
                IF raises THEN new_bet ELSE current_bet,
                IF raises THEN idx ELSE last_raiser,
                IF raises THEN {idx} ELSE acted_since_last_raise \cup {idx},
                [action EXCEPT !.amount = additional_amount])

process_action(action, idx) ==
    CASE action.action_type = "FOLD" -> process_fold(action, idx)
      [] action.action_type = "CHECK" -> process_check(action, idx)
      [] action.action_type = "CALL" -> process_call(action, idx)
      [] action.action_type \in {"BET", "RAISE"} -> process_bet_raise(action, idx)
      [] action.action_type = "ALL_IN" -> process_all_in(action, idx)
      [] OTHER -> Outcome(chips, player_bet, folded, pot, current_bet, last_raiser,
                          acted_since_last_raise, action)

count_active_players(f) == Cardinality({i \in DOMAIN f : ~f[i]})

\* The completion test with a full circle ending the round after a raise too.
round_complete_full_circle(o, next_idx) ==
    LET active_non_allin_players ==
            {i \in DOMAIN o.chips : ~o.folded[i] /\ o.chips[i] > 0}
        all_acted == active_non_allin_players \subseteq o.acted_since_last_raise
    IN  \/ all_acted
        \/ next_idx = start_idx
        \/ count_active_players(o.folded) <= 1

\* The completion test without the exit on the last seat standing.
round_complete_all_acted(o, next_idx) ==
    LET active_non_allin_players ==
            {i \in DOMAIN o.chips : ~o.folded[i] /\ o.chips[i] > 0}
        all_acted == active_non_allin_players \subseteq o.acted_since_last_raise
    IN  \/ all_acted
        \/ (o.last_raiser = -1 /\ next_idx = start_idx)

\* "Check if betting round is complete", on the state one action left behind.
round_complete(o, next_idx) ==
    LET active_non_allin_players ==
            {i \in DOMAIN o.chips : ~o.folded[i] /\ o.chips[i] > 0}
        all_acted == active_non_allin_players \subseteq o.acted_since_last_raise
    IN  \/ all_acted
        \/ (o.last_raiser = -1 /\ next_idx = start_idx)
        \/ count_active_players(o.folded) <= 1

\* The skip loop passing over the folded seats only.
SkipCandidatesFolded ==
    {k \in 0..(NumPlayers - 1) :
        LET j == (current_idx + k) % NumPlayers
        IN  ~folded[j]}

\* The seat the skip loop stops at, starting from current_idx.
SkipCandidates ==
    {k \in 0..(NumPlayers - 1) :
        LET j == (current_idx + k) % NumPlayers
        IN  ~(folded[j] \/ chips[j] = 0)}

MinOf(S) == CHOOSE x \in S : \A y \in S : x <= y

\* The seat at current_idx, whatever its state.
next_to_act_unskipped == current_idx

next_to_act == (current_idx + MinOf(SkipCandidates)) % NumPlayers

\* The actions a decision provider can return for seat i.
Decisions(i) ==
    {Action(t, i, 0, current_round) : t \in {"FOLD", "CHECK", "CALL", "ALL_IN"}}
    \cup {Action(t, i, a, current_round) : t \in {"BET", "RAISE"}, a \in AmountChoices}

\* ------------------------------------------------------------------------
\* Game.__init__
\* ------------------------------------------------------------------------

Init ==
    /\ \E n \in SeatCounts :
          /\ chips \in [0..(n - 1) -> StackChoices]
          /\ dealer_idx \in 0..(n - 1)
          /\ player_bet = [i \in 0..(n - 1) |-> 0]
          /\ folded = [i \in 0..(n - 1) |-> FALSE]
          /\ hand_scores = [i \in 0..(n - 1) |-> -1]
    /\ starting_chips = chips
    /\ initial_total_chips = SumChips(chips)
    /\ pot = 0
    /\ current_bet = 0
    /\ current_round = ""
    /\ action_history = <<>>
    /\ chip_accounting_errors = 0
    /\ small_blind_idx = 0
    /\ big_blind_idx = 0
    /\ start_idx = 0
    /\ current_idx = 0
    /\ last_raiser = -1
    /\ acted_since_last_raise = {}
    /\ starting_total_chips = 0
    /\ active_players = {}
    /\ deck = <<>>
    /\ hands = [i \in Seats |-> <<>>]
    /\ community_cards = <<>>
    /\ game_state_log = <<>>
    /\ deal_count = 0
    /\ dealt_cards = <<>>
    /\ deal_error = FALSE
    /\ proposed = NoAction
    /\ validated = NoAction
    /\ revalidated = NoAction
    /\ pc = "play_hand"
    /\ players = [i \in DOMAIN chips |-> i]

\* ------------------------------------------------------------------------
\* Game.play_hand, up to the blinds
\* ------------------------------------------------------------------------

\* Deck(): one card per rank and suit, shuffled. Card k stands for whichever
\* card the shuffle put at position k.
new_deck == [k \in 1..DeckSize |-> k]

\* A deal that hands out the last count cards of the deck.
deal_from_end(cards, count) ==
    IF count > Len(cards)
    THEN [error |-> TRUE, dealt_cards |-> <<>>, cards |-> cards]
    ELSE [error |-> FALSE,
          dealt_cards |-> SubSeq(cards, Len(cards) - count + 1, Len(cards)),
          cards |-> SubSeq(cards, 1, Len(cards) - count)]

\* Deck.deal on a deck holding cards: the first count cards and the rest, or
\* the ValueError that leaves the deck as it was.
deal(cards, count) ==
    IF count > Len(cards)
    THEN [error |-> TRUE, dealt_cards |-> <<>>, cards |-> cards]
    ELSE [error |-> FALSE,
          dealt_cards |-> SubSeq(cards, 1, count),
          cards |-> SubSeq(cards, count + 1, Len(cards))]

\* The record log_game_state is handed.
game_state == [pot |-> pot, community_cards |-> community_cards, current_bet |-> current_bet]

\* Seat of the small blind without the heads-up adjustment.
small_blind_position_ring(d, n) == (d + 1) % n

\* Seat of the small blind for dealer d among n seats.
small_blind_position(d, n) == IF n = 2 THEN d ELSE (d + 1) % n

\* Seat of the big blind for dealer d among n seats.
big_blind_position(d, n) == IF n = 2 THEN (d + 1) % n ELSE (d + 2) % n

PlayHandReset ==
    /\ pc = "play_hand"
    /\ chip_accounting_errors' =
          IF SumChips(chips) # initial_total_chips
          THEN chip_accounting_errors + 1 ELSE chip_accounting_errors
    /\ pot' = 0
    /\ current_bet' = 0
    /\ action_history' = <<>>
    /\ folded' = [i \in Seats |-> FALSE]
    /\ player_bet' = [i \in Seats |-> 0]
    /\ starting_chips' = chips
    /\ small_blind_idx' = small_blind_position(dealer_idx, NumPlayers)
    /\ big_blind_idx' = big_blind_position(dealer_idx, NumPlayers)
    /\ deck' = new_deck
    /\ community_cards' = <<>>
    /\ hands' = [i \in Seats |-> <<>>]
    /\ pc' = "small_blind"
    /\ UNCHANGED <<players, dealVars, chips, dealer_idx, current_round, initial_total_chips, start_idx,
                   roundVars, game_state_log, hand_scores, decisionVars>>

\* Game.post_blind for seat i.
post_blind(i, amount, action_type) ==
    LET bet_amount == Min(chips[i], amount)
    IN  /\ chips' = [chips EXCEPT ![i] = @ - bet_amount]
        /\ player_bet' = [player_bet EXCEPT ![i] = bet_amount]
        /\ pot' = pot + bet_amount
        /\ action_history' =
              Append(action_history, Action(action_type, i, bet_amount, current_round))
        /\ game_state_log' =
              Append(game_state_log, [game_state EXCEPT !.pot = pot + bet_amount])

PostSmallBlind ==
    /\ pc = "small_blind"
    /\ post_blind(small_blind_idx, small_blind, "SMALL_BLIND")
    /\ pc' = "big_blind"
    /\ UNCHANGED <<players, dealVars, folded, current_bet, current_round, chip_accounting_errors, start_idx,
                   handVars, roundVars, cardVars, hand_scores, decisionVars>>

PostBigBlind ==
    /\ pc = "big_blind"
    /\ post_blind(big_blind_idx, big_blind, "BIG_BLIND")
    /\ pc' = "deal_hole_cards"
    /\ UNCHANGED <<players, dealVars, folded, current_bet, current_round, chip_accounting_errors, start_idx,
                   handVars, roundVars, cardVars, hand_scores, decisionVars>>

\* deal_hole_cards and the lines of play_hand that open the pre-flop round.
\* Game.deal_hole_cards: every seat of the list, in list order, receives the
\* next two cards of the deck.
deal_hole_cards(cards, h) ==
    [hands |-> [i \in DOMAIN h |-> h[i] \o SubSeq(cards, 2 * i + 1, 2 * i + 2)],
     cards |-> SubSeq(cards, 2 * Cardinality(DOMAIN h) + 1, Len(cards))]

\* The pre-flop round opening at the small blind.
first_to_act_small_blind == small_blind_idx

\* first_to_act of play_hand: the seat after the big blind.
first_to_act == (big_blind_idx + 1) % NumPlayers

DealHoleCards ==
    /\ pc = "deal_hole_cards"
    /\ LET d == deal_hole_cards(deck, hands)
       IN  /\ hands' = d.hands
           /\ deck' = d.cards
    /\ current_round' = "Pre-Flop"
    /\ start_idx' = first_to_act
    /\ pc' = "betting_round"
    /\ UNCHANGED <<players, dealVars, playerVars, pot, current_bet, action_history, chip_accounting_errors,
                   handVars, roundVars, community_cards, game_state_log, hand_scores,
                   decisionVars>>

\* ------------------------------------------------------------------------
\* Game.betting_round
\* ------------------------------------------------------------------------

\* Entry of betting_round: reset of the bets after the pre-flop round, the
\* early return, and the initialisation of the loop's locals.
BettingRoundStart ==
    /\ pc = "betting_round"
    /\ IF current_round = "Pre-Flop"
       THEN UNCHANGED <<current_bet, player_bet>>
       ELSE /\ current_bet' = 0
            /\ player_bet' = [i \in Seats |-> 0]
    /\ active_players' = {i \in Seats : ~folded[i] /\ chips[i] > 0}
    /\ IF Cardinality(active_players') <= 1
       THEN /\ pc' = "after_round"
            /\ UNCHANGED <<current_idx, last_raiser, acted_since_last_raise,
                           starting_total_chips>>
       ELSE /\ starting_total_chips' = SumChips(chips) + pot
            /\ current_idx' = start_idx
            /\ last_raiser' = -1
            /\ acted_since_last_raise' = {}
            /\ pc' = "act"
    /\ UNCHANGED <<players, dealVars, chips, folded, pot, current_round, action_history,
                   chip_accounting_errors, start_idx, handVars, cardVars, game_state_log,
                   hand_scores, decisionVars>>

\* One iteration of the while loop: skip to the next seat that can act, ask
\* it for a decision, validate, record, process, advance, test completion;
\* on completion, the chip accounting check that follows the loop.
Act ==
    /\ pc = "act"
    /\ Len(action_history) < MaxActions + 2
    /\ SkipCandidates # {}
    /\ LET idx == next_to_act
       IN  \E decision \in Decisions(idx) :
              LET info_set == build_information_set(idx)
                  v == validate_action(decision, PlayerOf(idx), info_set)
                  o == process_action(v.validated_action, idx)
                  next_idx == (idx + 1) % NumPlayers
                  ending_total_chips == SumChips(o.chips) + o.pot
              IN  /\ proposed' = v.action
                  /\ validated' = v.validated_action
                  /\ action_history' = Append(action_history, o.action)
                  /\ chips' = o.chips
                  /\ player_bet' = o.player_bet
                  /\ folded' = o.folded
                  /\ pot' = o.pot
                  /\ current_bet' = o.current_bet
                  /\ last_raiser' = o.last_raiser
                  /\ acted_since_last_raise' = o.acted_since_last_raise
                  /\ current_idx' = next_idx
                  /\ game_state_log' =
                        Append(game_state_log,
                               [game_state EXCEPT !.pot = o.pot,
                                                  !.current_bet = o.current_bet])
                  /\ IF round_complete(o, next_idx)
                     THEN /\ pc' = "after_round"
                          /\ chip_accounting_errors' =
                                IF starting_total_chips # ending_total_chips
                                THEN chip_accounting_errors + 1
                                ELSE chip_accounting_errors
                     ELSE /\ pc' = "act"
                          /\ UNCHANGED chip_accounting_errors
    /\ UNCHANGED <<players, dealVars, current_round, start_idx, starting_total_chips, active_players,
                   handVars, cardVars, hand_scores, revalidated>>

\* ------------------------------------------------------------------------
\* Game.play_hand after a betting round
\* ------------------------------------------------------------------------

NextRound(r) ==
    CASE r = "Pre-Flop" -> "Flop"
      [] r = "Flop" -> "Turn"
      [] r = "Turn" -> "River"
      [] OTHER -> r

\* Flop, Turn, River: the next street is dealt and its betting round opens
\* at the small blind.
\* One card for every street.
community_count_one(r) == 1

\* The count play_hand hands deal_community_cards for round r.
community_count(r) == IF r = "Flop" THEN 3 ELSE 1

\* Game.deal_community_cards.
deal_community_cards(cards, community, count) ==
    LET d == deal(cards, count)
    IN  [community_cards |-> community \o d.dealt_cards, cards |-> d.cards]

DealCommunityCards ==
    /\ pc = "after_round"
    /\ current_round \in {"Pre-Flop", "Flop", "Turn"}
    /\ count_active_players(folded) >= 2
    /\ current_round' = NextRound(current_round)
    /\ LET d == deal_community_cards(deck, community_cards,
                                     community_count(NextRound(current_round)))
       IN  /\ community_cards' = d.community_cards
           /\ deck' = d.cards
           /\ game_state_log' =
                 Append(game_state_log, [game_state EXCEPT !.community_cards = d.community_cards])
    /\ start_idx' = small_blind_idx
    /\ pc' = "betting_round"
    /\ UNCHANGED <<players, dealVars, playerVars, pot, current_bet, action_history, chip_accounting_errors,
                   handVars, roundVars, hands, hand_scores, decisionVars>>

\* award_pot without the reset of the pot.
award_pot_keep(c, f, p) ==
    LET standing == {i \in DOMAIN f : ~f[i]}
    IN  IF standing # {}
        THEN [chips |-> [c EXCEPT ![MinOf(standing)] = @ + p], pot |-> p]
        ELSE [chips |-> c, pot |-> p]

\* Game.award_pot: the pot goes to the first seat that has not folded.
award_pot(c, f, p) ==
    LET standing == {i \in DOMAIN f : ~f[i]}
    IN  IF standing # {}
        THEN [chips |-> [c EXCEPT ![MinOf(standing)] = @ + p], pot |-> 0]
        ELSE [chips |-> c, pot |-> p]

AwardPot ==
    /\ pc = "after_round"
    /\ count_active_players(folded) <= 1
    /\ LET r == award_pot(chips, folded, pot)
       IN  /\ chips' = r.chips
           /\ pot' = r.pot
    /\ pc' = "log_hand_results"
    /\ UNCHANGED <<players, dealVars, player_bet, folded, current_bet, current_round, action_history,
                   chip_accounting_errors, start_idx, handVars, roundVars, cardVars, game_state_log,
                   hand_scores, decisionVars>>

\* The split with the whole remainder going to the first seat of W.
split_pot_remainder_first(W, p) ==
    LET k == Cardinality(W)
    IN  [w \in W |-> (p \div k) + (IF w = MinOf(W) THEN p % k ELSE 0)]

\* The split of p chips among the seats of W in seat order: p // len(W)
\* each, one more for the first p % len(W) of them, and whatever that left
\* undistributed to the first of them.
split_pot(W, p) ==
    LET k == Cardinality(W)
        pot_per_winner == p \div k
        remainder == p % k
        place(w) == Cardinality({j \in W : j < w})
        award == [w \in W |-> pot_per_winner + (IF place(w) < remainder THEN 1 ELSE 0)]
        total_awarded == SumOver(award, W)
        fix == IF total_awarded < p THEN p - total_awarded ELSE 0
    IN  [w \in W |-> award[w] + (IF w = MinOf(W) THEN fix ELSE 0)]

\* A showdown that pays every seat that has not folded.
showdown_all_standing(c, f, p, scores) ==
    LET standing == {i \in DOMAIN f : ~f[i]}
        award == split_pot(standing, p)
    IN  [chips |-> [i \in DOMAIN c |-> IF i \in standing THEN c[i] + award[i] ELSE c[i]],
         pot |-> 0]

\* Game.showdown; the scores stand for HandEvaluator.evaluate on the cards
\* the shuffled deck gave each seat.
showdown(c, f, p, scores) ==
    LET standing == {i \in DOMAIN f : ~f[i]}
        best_score == CHOOSE x \in {scores[i] : i \in standing} :
                          \A i \in standing : scores[i] <= x
        winners == {i \in standing : scores[i] = best_score}
        award == split_pot(winners, p)
    IN  [chips |-> [i \in DOMAIN c |-> IF i \in winners THEN c[i] + award[i] ELSE c[i]],
         pot |-> 0]

Showdown ==
    /\ pc = "after_round"
    /\ current_round = "River"
    /\ count_active_players(folded) > 1
    /\ \E scores \in [Seats -> ScoreChoices] :
          LET r == showdown(chips, folded, pot, scores)
          IN  /\ hand_scores' = [i \in Seats |-> IF folded[i] THEN -1 ELSE scores[i]]
              /\ chips' = r.chips
              /\ pot' = r.pot
    /\ current_round' = "Showdown"
    /\ pc' = "log_hand_results"
    /\ UNCHANGED <<players, dealVars, player_bet, folded, current_bet, action_history,
                   chip_accounting_errors, start_idx, handVars, roundVars, cardVars,
                   game_state_log, decisionVars>>

\* Game.log_hand_results: the distribution of a pot that was left over, and
\* the chip accounting check at the end of the hand.
log_hand_results(c, f, p) ==
    LET total_chip_change == SumChips(c) - SumChips(starting_chips)
        standing == {i \in DOMAIN f : ~f[i]}
    IN  IF total_chip_change # 0 /\ p > 0
        THEN IF standing # {}
             THEN LET award == split_pot(standing, p)
                  IN  [chips |-> [i \in DOMAIN c |->
                                    IF i \in standing THEN c[i] + award[i] ELSE c[i]],
                       pot |-> 0]
             ELSE [chips |-> c, pot |-> 0]
        ELSE [chips |-> c, pot |-> p]

LogHandResults ==
    /\ pc = "log_hand_results"
    /\ LET r == log_hand_results(chips, folded, pot)
       IN  /\ chips' = r.chips
           /\ pot' = r.pot
           /\ chip_accounting_errors' =
                 IF SumChips(r.chips) + r.pot # initial_total_chips
                 THEN chip_accounting_errors + 1 ELSE chip_accounting_errors
    /\ pc' = "done"
    /\ UNCHANGED <<players, dealVars, player_bet, folded, current_bet, current_round, action_history,
                   start_idx, handVars, roundVars, cardVars, game_state_log, hand_scores,
                   decisionVars>>

Next ==
    \/ PlayHandReset
    \/ PostSmallBlind
    \/ PostBigBlind
    \/ DealHoleCards
    \/ BettingRoundStart
    \/ Act
    \/ DealCommunityCards
    \/ AwardPot
    \/ Showdown
    \/ LogHandResults

Spec == Init /\ [][Next]_vars

\* ------------------------------------------------------------------------
\* Game.validate_action on its own: one seat, one snapshot, one proposal
\* ------------------------------------------------------------------------

InitValidate ==
    /\ chips \in [{0} -> VChipChoices]
    /\ player_bet \in [{0} -> VBetChoices]
    /\ current_bet \in VCurrentBetChoices
    /\ \E t \in ActionTypes, a \in VAmountChoices :
          proposed = Action(t, 0, a, "Flop")
    /\ folded = [i \in {0} |-> FALSE]
    /\ hand_scores = [i \in {0} |-> -1]
    /\ starting_chips = chips
    /\ initial_total_chips = SumChips(chips)
    /\ dealer_idx = 0
    /\ pot = 0
    /\ current_round = "Flop"
    /\ action_history = <<>>
    /\ chip_accounting_errors = 0
    /\ small_blind_idx = 0
    /\ big_blind_idx = 0
    /\ start_idx = 0
    /\ current_idx = 0
    /\ last_raiser = -1
    /\ acted_since_last_raise = {}
    /\ starting_total_chips = 0
    /\ active_players = {}
    /\ deck = <<>>
    /\ hands = [i \in {0} |-> <<>>]
    /\ community_cards = <<>>
    /\ game_state_log = <<>>
    /\ deal_count = 0
    /\ dealt_cards = <<>>
    /\ deal_error = FALSE
    /\ validated = NoAction
    /\ revalidated = NoAction
    /\ pc = "validate"
    /\ players = [i \in DOMAIN chips |-> i]

\* validated = self.validate_action(proposed, players[0], info_set)
Validate ==
    /\ pc = "validate"
    /\ LET v == validate_action(proposed, PlayerOf(0), build_information_set(0))
       IN  /\ proposed' = v.action
           /\ validated' = v.validated_action
           /\ chips' = [chips EXCEPT ![0] = v.player.chips]
           /\ player_bet' = [player_bet EXCEPT ![0] = v.player.current_bet]
           /\ folded' = [folded EXCEPT ![0] = v.player.folded]
    /\ pc' = "validated"
    /\ UNCHANGED <<players, dealVars, pot, current_bet, current_round, action_history,
                   chip_accounting_errors, start_idx, handVars, roundVars, cardVars,
                   game_state_log, hand_scores, revalidated>>

\* revalidated = self.validate_action(validated, players[0], info_set)
Revalidate ==
    /\ pc = "validated"
    /\ LET v == validate_action(validated, PlayerOf(0), build_information_set(0))
       IN  /\ validated' = v.action
           /\ revalidated' = v.validated_action
           /\ chips' = [chips EXCEPT ![0] = v.player.chips]
           /\ player_bet' = [player_bet EXCEPT ![0] = v.player.current_bet]
           /\ folded' = [folded EXCEPT ![0] = v.player.folded]
    /\ pc' = "revalidated"
    /\ UNCHANGED <<players, dealVars, pot, current_bet, current_round, action_history,
                   chip_accounting_errors, start_idx, handVars, roundVars, cardVars,
                   game_state_log, hand_scores, proposed>>

NextValidate ==
    \/ Validate
    \/ Revalidate

SpecValidate == InitValidate /\ [][NextValidate]_vars

\* ------------------------------------------------------------------------
\* Game.showdown on its own: a table at the end of the river round
\* ------------------------------------------------------------------------

ShowdownSeatCounts == {2, 3}
ShowdownStackChoices == {0, 40}
ShowdownPotChoices == {0, 1, 2, 10, 181}

InitShowdown ==
    /\ \E n \in ShowdownSeatCounts :
          /\ chips \in [0..(n - 1) -> ShowdownStackChoices]
          /\ folded \in [0..(n - 1) -> BOOLEAN]
          /\ dealer_idx \in {0}
          /\ player_bet = [i \in 0..(n - 1) |-> 0]
          /\ hand_scores = [i \in 0..(n - 1) |-> -1]
    /\ count_active_players(folded) > 1
    /\ pot \in ShowdownPotChoices
    /\ starting_chips = chips
    /\ initial_total_chips = SumChips(chips) + pot
    /\ current_bet = 0
    /\ current_round = "River"
    /\ action_history = <<>>
    /\ chip_accounting_errors = 0
    /\ small_blind_idx = small_blind_position(dealer_idx, NumPlayers)
    /\ big_blind_idx = big_blind_position(dealer_idx, NumPlayers)
    /\ start_idx = small_blind_idx
    /\ current_idx = 0
    /\ last_raiser = -1
    /\ acted_since_last_raise = {}
    /\ starting_total_chips = 0
    /\ active_players = {}
    /\ LET h == deal_hole_cards(new_deck, [i \in Seats |-> <<>>])
           d == deal(h.cards, 5)
       IN  /\ hands = h.hands
           /\ community_cards = d.dealt_cards
           /\ deck = d.cards
    /\ game_state_log = <<>>
    /\ deal_count = 0
    /\ dealt_cards = <<>>
    /\ deal_error = FALSE
    /\ proposed = NoAction
    /\ validated = NoAction
    /\ revalidated = NoAction
    /\ pc = "after_round"
    /\ players = [i \in DOMAIN chips |-> i]

NextShowdown ==
    \/ Showdown
    \/ LogHandResults

SpecShowdown == InitShowdown /\ [][NextShowdown]_vars

\* ------------------------------------------------------------------------
\* Deck on its own: a new deck that is dealt from, call after call
\* ------------------------------------------------------------------------

DealCounts == {0, 1, 2, 3, 5, 53}

\* Everything that belongs to a Game, as it is when no game is played.
NoGame ==
    /\ chips = [i \in {0} |-> 0]
    /\ player_bet = [i \in {0} |-> 0]
    /\ folded = [i \in {0} |-> FALSE]
    /\ hand_scores = [i \in {0} |-> -1]
    /\ starting_chips = chips
    /\ initial_total_chips = 0
    /\ dealer_idx = 0
    /\ pot = 0
    /\ current_bet = 0
    /\ current_round = ""
    /\ action_history = <<>>
    /\ chip_accounting_errors = 0
    /\ small_blind_idx = 0
    /\ big_blind_idx = 0
    /\ start_idx = 0
    /\ current_idx = 0
    /\ last_raiser = -1
    /\ acted_since_last_raise = {}
    /\ starting_total_chips = 0
    /\ active_players = {}
    /\ game_state_log = <<>>
    /\ proposed = NoAction
    /\ validated = NoAction
    /\ revalidated = NoAction
    /\ players = [i \in DOMAIN chips |-> i]

\* deck = Deck()
InitDeck ==
    /\ NoGame
    /\ deck = new_deck
    /\ hands = [i \in {0} |-> <<>>]
    /\ community_cards = <<>>
    /\ deal_count = 0
    /\ dealt_cards = <<>>
    /\ deal_error = FALSE
    /\ pc = "deal"

\* cards = deck.deal(n), the ValueError caught
DealCards ==
    /\ pc = "deal"
    /\ \E n \in DealCounts :
          LET d == deal(deck, n)
          IN  /\ deal_count' = n
              /\ dealt_cards' = d.dealt_cards
              /\ deal_error' = d.error
              /\ deck' = d.cards
    /\ UNCHANGED <<players, playerVars, pot, current_bet, current_round, action_history,
                   chip_accounting_errors, start_idx, handVars, roundVars, hands,
                   community_cards, game_state_log, hand_scores, decisionVars, pc>>

NextDeck == DealCards

SpecDeck == InitDeck /\ [][NextDeck]_vars

\* ------------------------------------------------------------------------
\* HandEvaluator
\* ------------------------------------------------------------------------

\* Deck.__init__ lists Card(rank, suit) for rank in Rank for suit in Suit: card
\* k of new_deck has the rank value and the suit (0 hearts, 1 diamonds,
\* 2 clubs, 3 spades) below.
rank_of(card) == 2 + ((card - 1) \div 4)
suit_of(card) == (card - 1) % 4
Card(rank, suit) == 4 * (rank - 2) + suit + 1

MaxOf(S) == CHOOSE x \in S : \A y \in S : y <= x

\* Counter(values)[x]
CountOf(values, x) == Cardinality({k \in DOMAIN values : values[k] = x})

\* The keys of Counter(values) whose count is in counts, in the order the
\* Counter holds them: that of their first occurrence.
KeysWithCount(values, counts) ==
    LET first == {k \in DOMAIN values :
                    /\ CountOf(values, values[k]) \in counts
                    /\ \A j \in 1..(k - 1) : values[j] # values[k]}
        place(k) == Cardinality({j \in first : j <= k})
    IN  [i \in 1..Cardinality(first) |-> values[CHOOSE k \in first : place(k) = i]]

\* sorted(values, reverse=True)[:n], the values those at the positions I of vals.
RECURSIVE SortedDescending(_, _, _)
SortedDescending(vals, I, n) ==
    IF n = 0 \/ I = {} THEN <<>>
    ELSE LET k == CHOOSE k \in I : \A j \in I : vals[j] <= vals[k]
         IN  <<vals[k]>> \o SortedDescending(vals, I \ {k}, n - 1)

\* The lowest values of the runs of five consecutive values in the set V.
RunStarts(V) == {v \in V : \A d \in 0..4 : (v + d) \in V}

\* An evaluator for which the ace is high only.
wheel_ignored(V) == FALSE

\* A-2-3-4-5 within the set V.
HasWheel(V) == {14, 2, 3, 4, 5} \subseteq V

\* HandEvaluator._get_best_hand: (hand type, tie-break values) of a list of
\* distinct cards.  0 stands for None in straight_high, -1 in flush_suit.
get_best_hand(cards) ==
    LET suits == [k \in DOMAIN cards |-> suit_of(cards[k])]
        flush_suits == KeysWithCount(suits, 5..Len(cards))
        flush_suit == IF Len(flush_suits) > 0 THEN flush_suits[1] ELSE -1
        ranks == [k \in DOMAIN cards |-> rank_of(cards[k])]
        unique_values == {ranks[k] : k \in DOMAIN ranks}
        straight == HasWheel(unique_values) \/ RunStarts(unique_values) # {}
        plain_high == IF RunStarts(unique_values) # {}
                      THEN MaxOf(RunStarts(unique_values)) + 4
                      ELSE IF HasWheel(unique_values) THEN 5 ELSE 0
        flush_values == {ranks[k] : k \in {j \in DOMAIN cards : suits[j] = flush_suit}}
        straight_flush == /\ flush_suit # -1
                          /\ straight
                          /\ (RunStarts(flush_values) # {} \/ HasWheel(flush_values))
        straight_high == IF flush_suit # -1 /\ straight
                         THEN IF HasWheel(flush_values) THEN 5
                              ELSE IF RunStarts(flush_values) # {}
                                   THEN MinOf(RunStarts(flush_values)) + 4
                                   ELSE plain_high
                         ELSE plain_high
        royal_flush == straight_flush /\ straight_high = 14
        four_kind == Len(KeysWithCount(ranks, {4})) > 0
        three_kind == Len(KeysWithCount(ranks, {3})) > 0
        pairs == KeysWithCount(ranks, {2})
        full_house == three_kind /\ Len(pairs) > 0
        two_pair == Len(pairs) >= 2
        pair == Len(pairs) = 1
        others(excluded) == {k \in DOMAIN ranks : ranks[k] \notin excluded}
    IN  IF royal_flush THEN <<9, <<14>>>>
        ELSE IF straight_flush THEN <<8, <<straight_high>>>>
        ELSE IF four_kind
        THEN LET quads == KeysWithCount(ranks, {4})[1]
             IN  <<7, <<quads>> \o SortedDescending(ranks, others({quads}), 1)>>
        ELSE IF full_house
        THEN <<6, <<KeysWithCount(ranks, {3})[1], pairs[1]>>>>
        ELSE IF flush_suit # -1
        THEN <<5, SortedDescending(ranks, {k \in DOMAIN cards : suits[k] = flush_suit}, 5)>>
        ELSE IF straight THEN <<4, <<straight_high>>>>
        ELSE IF three_kind
        THEN LET trips == KeysWithCount(ranks, {3})[1]
             IN  <<3, <<trips>> \o SortedDescending(ranks, others({trips}), 2)>>
        ELSE IF two_pair
        THEN LET top_pairs == SortedDescending(pairs, DOMAIN pairs, 2)
             IN  <<2, top_pairs
                      \o SortedDescending(ranks, others({top_pairs[1], top_pairs[2]}), 1)>>
        ELSE IF pair
        THEN <<1, <<pairs[1]>> \o SortedDescending(ranks, others({pairs[1]}), 3)>>
        ELSE <<0, SortedDescending(ranks, DOMAIN ranks, 5)>>

\* HandEvaluator.evaluate
evaluate(hand, cards) == get_best_hand(hand \o cards)

\* The cards the hands are drawn from: the hearts 2 3 4 5 6 9 10 J Q K A, the
\* other three aces, the diamond and club kings, the diamond queen and the
\* diamond six.
EvaluatedCards ==
    {Card(r, 0) : r \in {2, 3, 4, 5, 6, 9, 10, 11, 12, 13, 14}}
        \cup {Card(14, 1), Card(14, 2), Card(14, 3), Card(13, 1), Card(13, 2), Card(12, 1),
              Card(6, 1)}

\* The cards two seats and a board are drawn from.
ComparedCards ==
    {Card(14, 0), Card(14, 1), Card(14, 2), Card(13, 0), Card(13, 1), Card(13, 2),
     Card(12, 0), Card(12, 1), Card(2, 0), Card(3, 1)}

\* Numbers of cards handed to evaluate for one seat.
EvaluatedCounts == {5, 6, 7}

\* The cards of S as a list, lowest first or highest first.
RECURSIVE ListOf(_, _)
ListOf(S, ascending) ==
    IF S = {} THEN <<>>
    ELSE LET c == IF ascending THEN MinOf(S) ELSE MaxOf(S)
         IN  <<c>> \o ListOf(S \ {c}, ascending)

\* A Game of n seats between hands.
IdleGame(n) ==
    /\ chips = [i \in 0..(n - 1) |-> 0]
    /\ player_bet = [i \in 0..(n - 1) |-> 0]
    /\ folded = [i \in 0..(n - 1) |-> FALSE]
    /\ hand_scores = [i \in 0..(n - 1) |-> -1]
    /\ starting_chips = chips
    /\ initial_total_chips = 0
    /\ dealer_idx = 0
    /\ pot = 0
    /\ current_bet = 0
    /\ current_round = ""
    /\ action_history = <<>>
    /\ chip_accounting_errors = 0
    /\ small_blind_idx = 0
    /\ big_blind_idx = 0
    /\ start_idx = 0
    /\ current_idx = 0
    /\ last_raiser = -1
    /\ acted_since_last_raise = {}
    /\ starting_total_chips = 0
    /\ active_players = {}
    /\ game_state_log = <<>>
    /\ proposed = NoAction
    /\ validated = NoAction
    /\ revalidated = NoAction
    /\ deck = <<>>
    /\ deal_count = 0
    /\ dealt_cards = <<>>
    /\ deal_error = FALSE
    /\ players = [i \in DOMAIN chips |-> i]

\* The hole cards and the board set by hand, as the evaluator's tests do: one
\* seat with two hole cards and three to five more cards, or two seats and a
\* board of five.
InitEvaluate ==
    /\ pc = "evaluate"
    /\ \E ascending \in BOOLEAN :
          \/ /\ IdleGame(1)
             /\ \E S \in SUBSET EvaluatedCards :
                   /\ Cardinality(S) \in EvaluatedCounts
                   /\ hands = [i \in {0} |-> SubSeq(ListOf(S, ascending), 1, 2)]
                   /\ community_cards = SubSeq(ListOf(S, ascending), 3, Cardinality(S))
          \/ /\ IdleGame(2)
             /\ \E B \in SUBSET ComparedCards :
                   /\ Cardinality(B) = 5
                   /\ community_cards = ListOf(B, ascending)
                   /\ \E H0 \in SUBSET (ComparedCards \ B) :
                         /\ Cardinality(H0) = 2
                         /\ \E H1 \in SUBSET (ComparedCards \ (B \cup H0)) :
                               /\ Cardinality(H1) = 2
                               /\ hands = [i \in {0, 1} |->
                                              ListOf(IF i = 0 THEN H0 ELSE H1, ascending)]

\* score = HandEvaluator.evaluate(player.hand, community_cards) for every seat
EvaluateHands ==
    /\ pc = "evaluate"
    /\ hand_scores' = [i \in Seats |-> evaluate(hands[i], community_cards)]
    /\ pc' = "evaluated"
    /\ UNCHANGED <<players, dealVars, playerVars, pot, current_bet, current_round, action_history,
                   chip_accounting_errors, start_idx, handVars, roundVars, cardVars,
                   game_state_log, decisionVars>>

NextEvaluate == EvaluateHands

SpecEvaluate == InitEvaluate /\ [][NextEvaluate]_vars

\* ------------------------------------------------------------------------
\* Game.start_game between two hands
\* ------------------------------------------------------------------------

\* Roster sizes and stacks a hand is left with.
RosterSizes == {2, 3, 4}
EndStackChoices == {0, 30}

\* [p for p in self.players if p.chips > 0]: the places kept, and the place
\* that becomes place k of the new list.
kept(c) == {i \in DOMAIN c : c[i] > 0}
kept_place(c, k) == CHOOSE i \in kept(c) : Cardinality({j \in kept(c) : j < i}) = k
remove_broke(f, c) == [k \in 0..(Cardinality(kept(c)) - 1) |-> f[kept_place(c, k)]]

\* start_game when play_hand has returned: some seat holds chips, the dealer
\* is a seat of the roster that played.
InitStartGame ==
    /\ \E n \in RosterSizes :
          /\ chips \in [0..(n - 1) -> EndStackChoices]
          /\ dealer_idx \in 0..(n - 1)
          /\ player_bet = [i \in 0..(n - 1) |-> 0]
          /\ folded = [i \in 0..(n - 1) |-> FALSE]
          /\ hands = [i \in 0..(n - 1) |-> <<>>]
          /\ hand_scores = [i \in 0..(n - 1) |-> -1]
    /\ kept(chips) # {}
    /\ players = [i \in DOMAIN chips |-> i]
    /\ starting_chips = chips
    /\ initial_total_chips = SumChips(chips)
    /\ pot = 0
    /\ current_bet = 0
    /\ current_round = "Showdown"
    /\ action_history = <<>>
    /\ chip_accounting_errors = 0
    /\ small_blind_idx = 0
    /\ big_blind_idx = 0
    /\ start_idx = 0
    /\ current_idx = 0
    /\ last_raiser = -1
    /\ acted_since_last_raise = {}
    /\ starting_total_chips = 0
    /\ active_players = {}
    /\ game_state_log = <<>>
    /\ proposed = NoAction
    /\ validated = NoAction
    /\ revalidated = NoAction
    /\ deck = <<>>
    /\ community_cards = <<>>
    /\ deal_count = 0
    /\ dealt_cards = <<>>
    /\ deal_error = FALSE
    /\ pc = "hand_played"

\* The rest of the loop body of start_game: the seats without chips leave
\* the roster; with fewer than two seats left the game ends, otherwise the
\* dealer index moves on and the next hand is played.
NextHand ==
    /\ pc = "hand_played"
    /\ players' = remove_broke(players, chips)
    /\ chips' = remove_broke(chips, chips)
    /\ player_bet' = remove_broke(player_bet, chips)
    /\ folded' = remove_broke(folded, chips)
    /\ hands' = remove_broke(hands, chips)
    /\ IF Cardinality(kept(chips)) < 2
       THEN /\ pc' = "game_over"
            /\ UNCHANGED dealer_idx
       ELSE /\ dealer_idx' = (dealer_idx + 1) % Cardinality(kept(chips))
            /\ pc' = "play_hand"
    /\ UNCHANGED <<dealVars, pot, current_bet, current_round, action_history,
                   chip_accounting_errors, start_idx, initial_total_chips, small_blind_idx,
                   big_blind_idx, starting_chips, roundVars, deck, community_cards,
                   game_state_log, hand_scores, decisionVars>>

NextStartGame == NextHand

SpecStartGame == InitStartGame /\ [][NextStartGame]_vars

\* ------------------------------------------------------------------------
\* Properties
\* ------------------------------------------------------------------------

LastRecorded(h) == h[Len(h)]

\* C1: at every point of a hand the chips of all seats plus the pot equal
\* the total the game started with, and the chip_accounting_errors counter
\* has never been incremented.
ChipConservation ==
    /\ SumChips(chips) + pot = initial_total_chips
    /\ chip_accounting_errors = 0

\* A hand that saw an all-in and a raise of the table's bet and went to showdown.
ChipConservationWitness ==
    /\ pc = "done"
    /\ current_round = "Showdown"
    /\ \E k \in 1..Len(action_history) : action_history[k].action_type = "ALL_IN"
    /\ \E k \in 1..Len(action_history) : action_history[k].action_type \in {"BET", "RAISE"}

\* C2: no seat's chips are ever below zero.
ChipsNonNegative == \A i \in Seats : chips[i] >= 0

\* C3: when play_hand returns the pot is 0 and the seats together hold the
\* game's initial total chips.
HandEndsSettled ==
    pc = "done" => (pot = 0 /\ SumChips(chips) = initial_total_chips)

\* A hand that ended at showdown with two seats tying for the best score and
\* a pot that does not divide evenly between them.
HandEndsSettledWitness ==
    /\ pc = "done"
    /\ current_round = "Showdown"
    /\ Cardinality({i \in Seats : hand_scores[i] = 1}) = 2
    /\ \E i \in Seats : chips[i] % 5 # 0

\* C4: validating the validator's result again, for the same seat and
\* snapshot, returns the same type and amount.
ValidatorIdempotent ==
    pc = "revalidated" =>
        /\ revalidated.action_type = validated.action_type
        /\ revalidated.amount = validated.amount

\* C5: a call of validate_action leaves every seat's chips, round
\* contribution and folded flag, the pot, the table's current bet and the
\* action history unchanged, and leaves the type and amount of the Action
\* object it was given unchanged.
ValidateHasNoEffect ==
    [][(pc \in {"validate", "validated"}) =>
          /\ UNCHANGED <<chips, player_bet, folded, pot, current_bet, action_history>>
          /\ (pc = "validate" =>
                 /\ proposed'.action_type = proposed.action_type
                 /\ proposed'.amount = proposed.amount)
          /\ (pc = "validated" =>
                 /\ validated'.action_type = validated.action_type
                 /\ validated'.amount = validated.amount)]_vars

\* The validator returned an action of another type and amount than the one
\* it was given, which still reads as proposed.
ValidateHasNoEffectWitness ==
    /\ pc = "validated"
    /\ validated.action_type # proposed.action_type
    /\ validated.amount # proposed.amount
    /\ chips[0] > 0

\* C6: a CALL proposed by a seat with chips > 0 moves exactly
\* min(current_bet - contribution, chips) chips from the seat to the pot;
\* a seat whose chips are less than the shortfall is turned all-in for its
\* remaining stack, and the seat is not folded.
CallMovesShortfall ==
    [][(pc = "act" /\ proposed'.action_type = "CALL" /\ chips[proposed'.player] > 0) =>
          LET i == proposed'.player
              shortfall == current_bet - player_bet[i]
              moved == Min(shortfall, chips[i])
          IN  /\ chips'[i] = chips[i] - moved
              /\ pot' = pot + moved
              /\ ~folded'[i]
              /\ (chips[i] < shortfall =>
                     /\ validated'.action_type = "ALL_IN"
                     /\ chips'[i] = 0)]_vars

\* C7: a proposed CHECK is applied as a check, moving no chips, only if the
\* seat's round contribution equals the table's current bet; otherwise it is
\* recorded as a CALL of current_bet - contribution.
CheckOnlyWhenMatched ==
    [][(pc = "act" /\ proposed'.action_type = "CHECK") =>
          LET i == proposed'.player
              recorded == LastRecorded(action_history')
          IN  IF player_bet[i] = current_bet
              THEN /\ recorded.action_type = "CHECK"
                   /\ chips'[i] = chips[i]
                   /\ pot' = pot
              ELSE /\ recorded.action_type = "CALL"
                   /\ recorded.amount = current_bet - player_bet[i]]_vars

\* C8: a BET proposed while the table's current bet is nonzero is rewritten
\* to RAISE (or to ALL_IN when the seat cannot pay), and no action of type
\* BET is recorded in a state where the table's current bet is above zero.
NoBetOverBet ==
    [][(pc = "act" /\ current_bet > 0) =>
          /\ LastRecorded(action_history').action_type # "BET"
          /\ (proposed'.action_type = "BET" => validated'.action_type # "BET")]_vars

\* The chips a proposed BET, RAISE or CALL asks the seat to add.
RequiredContribution(action, b) ==
    CASE action.action_type = "BET" -> Max(action.amount, big_blind) - b
      [] action.action_type = "RAISE" -> Max(action.amount, current_bet + big_blind) - b
      [] action.action_type = "CALL" -> current_bet - b
      [] OTHER -> 0

\* C9: a BET, RAISE or CALL that asks a seat to add at least as many chips
\* as it has is returned by the validator as ALL_IN with amount equal to
\* the seat's round contribution plus its remaining stack.
AllInWhenStackReached ==
    (/\ pc = "validated"
     /\ chips[0] > 0
     /\ proposed.action_type \in {"BET", "RAISE", "CALL"}
     /\ RequiredContribution(proposed, player_bet[0]) >= chips[0])
    => (/\ validated.action_type = "ALL_IN"
        /\ validated.amount = player_bet[0] + chips[0])

\* The minimum amount of a BET or RAISE.
MinimumSize(action) ==
    IF action.action_type = "BET" THEN big_blind ELSE current_bet + big_blind

\* C10 as stated: for a seat whose stack is at least the minimum, a BET or
\* RAISE below the minimum is returned with the same type and exactly the
\* minimum, and one at or above the minimum is returned unchanged.
MinimumSizesAsStated ==
    (/\ pc = "validated"
     /\ proposed.action_type \in {"BET", "RAISE"}
     /\ chips[0] >= MinimumSize(proposed))
    => (/\ validated.action_type = proposed.action_type
        /\ validated.amount = Max(proposed.amount, MinimumSize(proposed)))

\* C10, amended: for a seat whose stack is at least the minimum, a BET or
\* RAISE below the minimum is returned with the same type and exactly the
\* minimum; one at or above the minimum is returned unchanged when the
\* stack covers it (BET: amount <= chips, RAISE: amount - contribution <=
\* chips).
MinimumSizes ==
    (/\ pc = "validated"
     /\ proposed.action_type \in {"BET", "RAISE"}
     /\ chips[0] >= MinimumSize(proposed)
     /\ (proposed.amount >= MinimumSize(proposed) =>
            IF proposed.action_type = "BET"
            THEN proposed.amount <= chips[0]
            ELSE proposed.amount - player_bet[0] <= chips[0]))
    => (/\ validated.action_type = proposed.action_type
        /\ validated.amount = Max(proposed.amount, MinimumSize(proposed)))

\* An under-sized RAISE facing a bet was bumped to current bet + big blind.
MinimumSizesWitness ==
    /\ pc = "validated"
    /\ proposed.action_type = "RAISE"
    /\ current_bet > 0
    /\ proposed.amount < current_bet + big_blind
    /\ chips[0] >= current_bet + big_blind
    /\ validated = [proposed EXCEPT !.amount = current_bet + big_blind]

\* InformationSet.get_actions_in_round on the history h.
get_actions_in_round(h, round_name) == SelectSeq(h, LAMBDA a : a.round_name = round_name)

\* The actions applied in the betting round in play.
RoundActions == get_actions_in_round(action_history, current_round)

\* The seats that are neither folded nor out of chips.
CanBet == {i \in Seats : ~folded[i] /\ chips[i] > 0}

\* The seats that have had a turn since the last raise of the round in play;
\* none when the round asked nobody.
TurnSinceLastRaise == IF Len(RoundActions) = 0 THEN {} ELSE acted_since_last_raise

\* C11, as stated: whenever betting_round has returned, every non-folded seat
\* with chips has had a turn since the last raise, or at most one seat is
\* non-folded, or no raise occurred and the turn is back at the opening
\* actor; and never are two seats non-folded while a non-folded seat with
\* chips has had no turn since the last raise.
RoundEndsSettledAsStated ==
    pc = "after_round" =>
        /\ \/ CanBet \subseteq TurnSinceLastRaise
           \/ count_active_players(folded) <= 1
           \/ (Len(RoundActions) > 0 /\ last_raiser = -1 /\ current_idx = start_idx)
        /\ ~(count_active_players(folded) >= 2 /\ ~(CanBet \subseteq TurnSinceLastRaise))

\* C11, amended: a betting round that asked for a decision returns only
\* when every non-folded seat with chips has had a turn since the last
\* raise or at most one seat is non-folded; a betting round that asked
\* nobody is one entered with at most one non-folded seat with chips.
RoundEndsSettled ==
    pc = "after_round" =>
        IF Len(RoundActions) = 0
        THEN Cardinality(active_players) <= 1 /\ active_players = CanBet
        ELSE \/ CanBet \subseteq acted_since_last_raise
             \/ count_active_players(folded) <= 1

\* A round that saw a raise returned with two seats still in and every seat
\* with chips having answered the raise.
RoundEndsSettledWitness ==
    /\ pc = "after_round"
    /\ Len(RoundActions) >= 3
    /\ last_raiser # -1
    /\ count_active_players(folded) >= 2
    /\ Cardinality(CanBet) >= 2

\* No action of the round in play was a bet, a raise or an all-in.
QuietRound ==
    \A k \in 1..Len(RoundActions) :
        RoundActions[k].action_type \in {"FOLD", "CHECK", "CALL"}

\* The number of actions seat i took in the round in play.
TurnsOf(i) == Cardinality({k \in 1..Len(RoundActions) : RoundActions[k].player = i})

BetAfter(k) ==
    game_state_log[Len(game_state_log) - Len(RoundActions) + k].current_bet

\* The table's current bet the k-th action of the round in play met: what the
\* blinds left for the first pre-flop action, 0 for the first action of a
\* later round.
BetBefore(k) ==
    IF k > 1 THEN BetAfter(k - 1)
    ELSE IF current_round = "Pre-Flop" THEN BetAfter(0)
    ELSE 0

\* The actions of the round in play that raised the table's current bet.
RaisingActions == {k \in 1..Len(RoundActions) : BetAfter(k) > BetBefore(k)}

\* C13: a betting round that started with N eligible seats and in which
\* exactly one action raised the table's current bet has returned after at
\* most 2N - 1 applied actions, and a seat that bet and was only called or
\* folded to afterwards was not asked again.
OneRaiseRoundLength ==
    (pc = "after_round" /\ Cardinality(RaisingActions) = 1)
    => /\ Len(RoundActions) <= 2 * Cardinality(active_players) - 1
       /\ \A k \in 1..Len(RoundActions) :
             (/\ RoundActions[k].action_type = "BET"
              /\ \A l \in (k + 1)..Len(RoundActions) :
                    RoundActions[l].action_type \in {"CALL", "FOLD"})
             => \A l \in (k + 1)..Len(RoundActions) :
                    RoundActions[l].player # RoundActions[k].player

\* C14: applying an action never lowers the table's current bet; a BET, RAISE
\* or ALL_IN whose seat ends with a round contribution above the current
\* bet sets the current bet to that contribution, and every other action
\* leaves it as it was.
CurrentBetNeverDecreases ==
    [][pc = "act" =>
          LET a == LastRecorded(action_history')
              contribution == player_bet'[a.player]
          IN  /\ current_bet' >= current_bet
              /\ IF /\ a.action_type \in {"BET", "RAISE", "ALL_IN"}
                    /\ contribution > current_bet
                 THEN current_bet' = contribution
                 ELSE current_bet' = current_bet]_vars

\* C15: when the pre-flop betting round is entered, and when its first
\* decision is requested, the table's current bet is the amount the big
\* blind posted.
PreFlopBetIsBigBlind ==
    (/\ current_round = "Pre-Flop"
     /\ pc \in {"betting_round", "act"}
     /\ Len(RoundActions) = 0)
    => current_bet = action_history[2].amount

\* C16: every decision of a betting round is requested from a seat that is
\* neither folded nor at zero chips; that seat's action is the one entry the
\* step adds to the history, and no other seat's chips, bet or folded flag
\* change.
DecisionsOnlyFromLiveSeats ==
    [][pc = "act" =>
          LET i == proposed'.player
          IN  /\ ~folded[i]
              /\ chips[i] # 0
              /\ Len(action_history') = Len(action_history) + 1
              /\ SubSeq(action_history', 1, Len(action_history)) = action_history
              /\ LastRecorded(action_history').player = i
              /\ \A j \in Seats \ {i} :
                    /\ chips'[j] = chips[j]
                    /\ player_bet'[j] = player_bet[j]
                    /\ folded'[j] = folded[j]]_vars

\* Two consecutive actions of a round came from seats that are not
\* neighbours: the seat between them, all-in or folded, was passed over.
DecisionsOnlyFromLiveSeatsWitness ==
    /\ NumPlayers = 3
    /\ \E k \in 1..(Len(RoundActions) - 1) :
          LET between == (RoundActions[k].player + 1) % NumPlayers
          IN  /\ RoundActions[k + 1].player = (between + 1) % NumPlayers
              /\ ~folded[between]
              /\ chips[between] = 0

\* The seat the claim has post the small blind.
StatedSmallBlindSeat ==
    IF NumPlayers > 2 THEN (dealer_idx + 1) % NumPlayers ELSE dealer_idx

\* The seat the claim has post the big blind.
StatedBigBlindSeat ==
    IF NumPlayers > 2 THEN (dealer_idx + 2) % NumPlayers ELSE 1 - dealer_idx

Live(i) == ~folded[i] /\ chips[i] # 0

\* The first seat at or after seat j, in cyclic seat order, that can be asked.
FirstLiveFrom(j) ==
    LET k == CHOOSE k \in 0..(NumPlayers - 1) :
                 /\ Live((j + k) % NumPlayers)
                 /\ \A m \in 0..(k - 1) : ~Live((j + m) % NumPlayers)
    IN  (j + k) % NumPlayers

PhaseCards ==
    /\ current_round = "Pre-Flop" =>
          /\ Len(community_cards) = 0
          /\ \A i \in Seats : Len(hands[i]) = 2
          /\ Len(action_history) >= 2
          /\ action_history[1].action_type = "SMALL_BLIND"
          /\ action_history[2].action_type = "BIG_BLIND"
    /\ current_round = "Flop" => Len(community_cards) = 3
    /\ current_round = "Turn" => Len(community_cards) = 4
    /\ current_round = "River" => Len(community_cards) = 5
    /\ current_round = "Showdown" =>
          /\ Len(community_cards) = 5
          /\ count_active_players(folded) >= 2

\* The phase changes a step may make.
PhaseStep ==
    /\ current_round' # current_round =>
          <<current_round, current_round'>> \in
              {<<"", "Pre-Flop">>, <<"Pre-Flop", "Flop">>, <<"Flop", "Turn">>,
               <<"Turn", "River">>, <<"River", "Showdown">>}
    /\ (current_round' # current_round /\ current_round # "") => pc = "after_round"
    /\ Len(community_cards') >= Len(community_cards)
    /\ (current_round # "" /\ current_round' = current_round) =>
          community_cards' = community_cards /\ hands' = hands

\* C19: the phases of a hand follow one another as blinds, Pre-Flop, Flop,
\* Turn, River, Showdown, each entered only when the betting round before
\* it has returned; the Pre-Flop, Flop, Turn and River rounds run with 0, 3,
\* 4 and 5 community cards, every seat holds 2 hole cards from the Pre-Flop
\* round on, and a showdown has 5 community cards and at least 2 non-folded
\* seats.
HandPhases == [](PhaseCards) /\ [][PhaseStep]_vars

\* A hand went through a river betting round with decisions and ended in a
\* showdown.
HandPhasesWitness ==
    /\ pc = "done"
    /\ current_round = "Showdown"
    /\ Len(community_cards) = 5
    /\ \E k \in 1..Len(action_history) : action_history[k].round_name = "Pre-Flop"

\* With at most one seat non-folded no decision is pending, no betting round
\* is about to open and no showdown has taken place.
LastStandingState ==
    count_active_players(folded) <= 1 =>
        /\ count_active_players(folded) = 1
        /\ pc \in {"after_round", "log_hand_results", "done"}
        /\ current_round # "Showdown"
        /\ \A i \in Seats : hand_scores[i] = -1

\* With at most one seat non-folded the hand only awards the whole pot to
\* that seat and then closes.
LastStandingStep ==
    count_active_players(folded) <= 1 =>
        /\ community_cards' = community_cards
        /\ action_history' = action_history
        /\ current_round' = current_round
        /\ folded' = folded
        /\ pc = "after_round" =>
              /\ pc' = "log_hand_results"
              /\ pot' = 0
              /\ \E w \in Seats :
                    /\ ~folded[w]
                    /\ chips' = [chips EXCEPT ![w] = @ + pot]
        /\ pc = "log_hand_results" =>
              /\ pc' = "done"
              /\ pot' = pot
              /\ chips' = chips

\* C20: once a betting round has left at most one seat non-folded, no
\* further decision is requested, no further community card is dealt and
\* no showdown takes place: the next step adds the entire pot to the chips
\* of the one non-folded seat and the hand ends.
EarlyExit == [](LastStandingState) /\ [][LastStandingStep]_vars

\* A fold on the flop left one seat, which was paid the pot with three
\* community cards on the table.
EarlyExitWitness ==
    /\ pc = "done"
    /\ count_active_players(folded) = 1
    /\ current_round = "Flop"
    /\ Len(community_cards) = 3
    /\ pot = 0
    /\ \E w \in Seats : ~folded[w] /\ chips[w] > starting_chips[w]

\* The seats that have not folded and hold the highest score at the showdown
\* a step performs.
TyingWinners ==
    {i \in Seats : /\ ~folded[i]
                   /\ \A j \in Seats : ~folded[j] => hand_scores'[j] <= hand_scores'[i]}

\* The number of tying winners seated before seat w.
WinnersBefore(w) == Cardinality({j \in TyingWinners : j < w})

\* C21: a showdown with k tying winners and pot P pays every winner
\* floor(P / k) chips and one more to the first P mod k winners in seat
\* order; the payments add up to P and the pot is 0 afterwards; 181 between
\* two winners is 91 for the first and 90 for the second.
ShowdownSplit ==
    [][(current_round = "River" /\ current_round' = "Showdown") =>
          LET k == Cardinality(TyingWinners)
              paid == [i \in Seats |-> chips'[i] - chips[i]]
          IN  /\ k >= 1
              /\ \A w \in TyingWinners :
                    paid[w] = (pot \div k) + (IF WinnersBefore(w) < pot % k THEN 1 ELSE 0)
              /\ SumOver(paid, TyingWinners) = pot
              /\ pot' = 0
              /\ (pot = 181 /\ k = 2) =>
                    \A w \in TyingWinners :
                        paid[w] = IF WinnersBefore(w) = 0 THEN 91 ELSE 90]_vars

\* Two seats tied for a pot of 181: 91 went to the first of them in seat
\* order and 90 to the second.
ShowdownSplitWitness ==
    /\ current_round = "Showdown"
    /\ Cardinality({i \in Seats : hand_scores[i] = 1}) = 2
    /\ \E i, j \in Seats :
          /\ i < j
          /\ hand_scores[i] = 1
          /\ hand_scores[j] = 1
          /\ chips[i] = starting_chips[i] + 91
          /\ chips[j] = starting_chips[j] + 90

\* C22: at a showdown the seats that are paid are exactly the non-folded
\* seats whose score is the highest among the non-folded seats: a folded
\* seat and a seat with a lower score keep the chips they had, every seat
\* with the highest score gets its share, and that share is at least one
\* chip when the pot holds a chip for each of them.
ShowdownPaysBestHands ==
    [][(current_round = "River" /\ current_round' = "Showdown") =>
          \A i \in Seats :
              IF i \in TyingWinners
              THEN /\ chips'[i] >= chips[i] + (pot \div Cardinality(TyingWinners))
                   /\ pot >= Cardinality(TyingWinners) => chips'[i] > chips[i]
              ELSE chips'[i] = chips[i]]_vars

\* Of three seats one had folded, one showed the lower score and kept its
\* chips, and the third was paid the pot.
ShowdownPaysBestHandsWitness ==
    /\ current_round = "Showdown"
    /\ NumPlayers = 3
    /\ \E i, j, w \in Seats :
          /\ folded[i] /\ chips[i] = starting_chips[i]
          /\ ~folded[j] /\ hand_scores[j] = 0 /\ chips[j] = starting_chips[j]
          /\ ~folded[w] /\ hand_scores[w] = 1 /\ chips[w] = starting_chips[w] + 181

\* C23: in every state of a hand at least one seat is non-folded, a decision
\* is only pending while at least two are, and once the pot has been
\* awarded, by award_pot or by the showdown, nothing is left in it.
WinnerAlwaysExists ==
    /\ \E i \in Seats : ~folded[i]
    /\ pc = "act" => Cardinality({i \in Seats : ~folded[i]}) >= 2
    /\ pc \in {"log_hand_results", "done"} =>
          /\ pot = 0
          /\ SumChips(chips) = SumChips(starting_chips)

\* Two of three seats folded before the flop and the third, who never had to
\* act, was paid the pot.
WinnerAlwaysExistsWitness ==
    /\ pc = "done"
    /\ NumPlayers = 3
    /\ Cardinality({i \in Seats : folded[i]}) = 2
    /\ \E w \in Seats :
          /\ ~folded[w]
          /\ chips[w] > starting_chips[w]
          /\ \A k \in 3..Len(action_history) : action_history[k].player # w

\* C24: the information set built for the seat about to decide holds that
\* seat's hole cards and no hole cards of any other seat.
InformationSetHidesOtherHands ==
    (pc = "act" /\ SkipCandidates # {}) =>
        LET info_set == build_information_set(next_to_act)
        IN  \A j \in Seats :
                info_set.player_states[j].hand =
                    IF j = next_to_act THEN hands[j] ELSE <<>>

\* C25: the entry a step appends to the action history has, when the step
\* is over, the type and amount of the validated action that was appended,
\* and no step changes the type or amount of an entry already there.
RecordedActionsImmutable ==
    [][/\ pc = "act" =>
             LET entry == action_history'[Len(action_history) + 1]
             IN  /\ entry.action_type = validated'.action_type
                 /\ entry.amount = validated'.amount
       /\ \A k \in 1..Len(action_history) :
             /\ k <= Len(action_history')
             /\ action_history'[k].action_type = action_history[k].action_type
             /\ action_history'[k].amount = action_history[k].amount]_vars

\* C26: Deck.deal(n) with n at most the number of cards left returns the
\* first n cards left, in order, and leaves the cards after them, in order;
\* with n above the number of cards left it raises and leaves the deck as
\* it was.
DealTakesFromTheFront ==
    [][pc = "deal" =>
          IF deal_count' <= Len(deck)
          THEN /\ ~deal_error'
               /\ Len(dealt_cards') = deal_count'
               /\ \A k \in 1..deal_count' : dealt_cards'[k] = deck[k]
               /\ Len(deck') = Len(deck) - deal_count'
               /\ \A k \in 1..Len(deck') : deck'[k] = deck[deal_count' + k]
          ELSE /\ deal_error'
               /\ deck' = deck]_vars

\* A deck that had been dealt from refused a deal of more cards than it had
\* left and kept them.
DealTakesFromTheFrontWitness ==
    /\ pc = "deal"
    /\ deal_error
    /\ deal_count = 5
    /\ Len(deck) \in 1..4
    /\ deck[Len(deck)] = DeckSize


\* The cards evaluate is handed for seat i.
CardsOf(i) ==
    {hands[i][k] : k \in DOMAIN hands[i]}
        \cup {community_cards[k] : k \in DOMAIN community_cards}

FiveCardSubsets(C) == {S \in SUBSET C : Cardinality(S) = 5}

RanksIn(S) == {rank_of(c) : c \in S}
RankCount(S, r) == Cardinality({c \in S : rank_of(c) = r})
IsFlush5(S) == \E s \in 0..3 : \A c \in S : suit_of(c) = s
IsStraight5(S) ==
    /\ Cardinality(RanksIn(S)) = 5
    /\ (MaxOf(RanksIn(S)) - MinOf(RanksIn(S)) = 4 \/ RanksIn(S) = {14, 2, 3, 4, 5})
StraightTop5(S) == IF RanksIn(S) = {14, 2, 3, 4, 5} THEN 5 ELSE MaxOf(RanksIn(S))

\* The category of five cards in the stated priority order.
Category5(S) ==
    LET held(n) == {r \in RanksIn(S) : RankCount(S, r) = n}
    IN  IF IsFlush5(S) /\ IsStraight5(S) THEN (IF StraightTop5(S) = 14 THEN 9 ELSE 8)
        ELSE IF held(4) # {} THEN 7
        ELSE IF held(3) # {} /\ held(2) # {} THEN 6
        ELSE IF IsFlush5(S) THEN 5
        ELSE IF IsStraight5(S) THEN 4
        ELSE IF held(3) # {} THEN 3
        ELSE IF Cardinality(held(2)) = 2 THEN 2
        ELSE IF Cardinality(held(2)) = 1 THEN 1
        ELSE 0

BestCategory(C) == MaxOf({Category5(S) : S \in FiveCardSubsets(C)})

\* C27: for every set of 5 to 7 distinct cards the category evaluate returns
\* lies in 0..9 and is the highest category that some 5-card subset of the
\* cards attains.
EvaluatorCategory ==
    pc = "evaluated" =>
        \A i \in Seats :
            /\ hand_scores[i][1] \in 0..9
            /\ hand_scores[i][1] = BestCategory(CardsOf(i))

\* C29: for every set of up to 7 cards whose best hand is a full house,
\* evaluate returns (6, [t, p]) with t the highest rank held three times and p
\* the highest other rank held at least twice.
FullHouseComposition ==
    pc = "evaluated" =>
        \A i \in Seats :
            BestCategory(CardsOf(i)) = 6 =>
                LET C == CardsOf(i)
                    t == MaxOf({r \in RanksIn(C) : RankCount(C, r) = 3})
                    p == MaxOf({r \in RanksIn(C) \ {t} : RankCount(C, r) >= 2})
                IN  hand_scores[i] = <<6, <<t, p>>>>

\* The top ranks of the straight flushes among the cards C, a wheel's being 5.
StraightFlushTops(C) ==
    {StraightTop5(S) : S \in {T \in FiveCardSubsets(C) : IsFlush5(T) /\ IsStraight5(T)}}

\* C30: cards that contain 10-J-Q-K-A of one suit score category 9; any other
\* cards that contain five consecutive ranks of one suit, the wheel included,
\* score (8, [h]) with h the top rank of the highest straight flush present.
StraightFlushScore ==
    pc = "evaluated" =>
        \A i \in Seats :
            LET tops == StraightFlushTops(CardsOf(i))
            IN  /\ 14 \in tops => hand_scores[i][1] = 9
                /\ (tops # {} /\ 14 \notin tops) => hand_scores[i] = <<8, <<MaxOf(tops)>>>>

\* Five cards as a comparable list: the category, then for a straight its top
\* rank, otherwise the five ranks, those held more often first and the higher
\* first among equals, each weighted by how often it is held.
Key5(S) ==
    IF IsStraight5(S) THEN <<Category5(S), StraightTop5(S)>>
    ELSE <<Category5(S)>>
             \o SortedDescending([c \in S |-> 15 * RankCount(S, rank_of(c)) + rank_of(c)], S, 5)

LexLess(a, b) ==
    \E k \in 1..Min(Len(a), Len(b)) :
        /\ a[k] < b[k]
        /\ \A j \in 1..(k - 1) : a[j] = b[j]

\* The best five-card hand among the cards C: its category and ranks.
BestFive(C) ==
    LET keys == {Key5(S) : S \in FiveCardSubsets(C)}
    IN  CHOOSE best \in keys : \A other \in keys : ~LexLess(best, other)

\* C28: two seats on one board whose best five-card hands are identical in
\* category and ranks get equal (category, kicker list) scores from evaluate.
EvaluatorTies ==
    (pc = "evaluated" /\ NumPlayers = 2) =>
        (BestFive(CardsOf(0)) = BestFive(CardsOf(1)) => hand_scores[0] = hand_scores[1])

\* The top ranks of the runs of five consecutive ranks among the cards C, the
\* ace counting low as well.
StraightTops(C) ==
    {v + 4 : v \in RunStarts(RanksIn(C))}
        \cup (IF {14, 2, 3, 4, 5} \subseteq RanksIn(C) THEN {5} ELSE {})

\* C31: cards whose best hand is a straight score (4, [h]) with h the top rank
\* of the highest run of five consecutive ranks, A-2-3-4-5 being a run with
\* top rank 5.
StraightScore ==
    pc = "evaluated" =>
        \A i \in Seats :
            (StraightTops(CardsOf(i)) # {} /\ BestCategory(CardsOf(i)) = 4) =>
                hand_scores[i] = <<4, <<MaxOf(StraightTops(CardsOf(i)))>>>>

\* A hand of six cards that holds both A-2-3-4-5 and 2-3-4-5-6 and no flush,
\* scored as a six-high straight.
StraightScoreWitness ==
    /\ pc = "evaluated"
    /\ NumPlayers = 1
    /\ StraightTops(CardsOf(0)) = {5, 6}
    /\ BestCategory(CardsOf(0)) = 4
    /\ hand_scores[0] = <<4, <<6>>>>

\* The first place after place d, in cyclic order, that holds chips.
FirstKeptAfter(d) ==
    LET n == Cardinality(DOMAIN chips)
        s == MinOf({t \in 1..n : chips[(d + t) % n] > 0})
    IN  (d + s) % n

\* C32: between two hands the seats without chips leave the roster, the
\* dealer index designates a seat of the new roster, and that seat is the
\* first seat with chips after the previous dealer in cyclic seat order.
DealerRotation ==
    [][(pc = "hand_played" /\ pc' = "play_hand") =>
          /\ {players'[k] : k \in DOMAIN players'} = {players[i] : i \in kept(chips)}
          /\ dealer_idx' \in DOMAIN players'
          /\ players'[dealer_idx'] = players[FirstKeptAfter(dealer_idx)]]_vars

\* C33: an applied BET, RAISE or ALL_IN resets the set of seats that acted
\* since the last raise to the acting seat alone exactly when the seat's new
\* round contribution exceeds the current bet it faced; otherwise the seat is
\* added to the set.
ReopensOnlyOnHigherBet ==
    [][(pc = "act" /\ Len(action_history') = Len(action_history) + 1
           /\ LastRecorded(action_history').action_type \in {"BET", "RAISE", "ALL_IN"}) =>
          LET idx == LastRecorded(action_history').player
          IN  IF player_bet'[idx] > current_bet
              THEN acted_since_last_raise' = {idx}
              ELSE acted_since_last_raise' = acted_since_last_raise \cup {idx}]_vars

\* C34: after an ALL_IN has been applied, whether proposed as ALL_IN or
\* converted from CALL, BET or RAISE, the recorded amount is the seat's total
\* contribution in the round and the seat's chips are 0.
AllInRecordsTotalContribution ==
    [][(pc = "act" /\ Len(action_history') = Len(action_history) + 1
           /\ LastRecorded(action_history').action_type = "ALL_IN") =>
          LET idx == LastRecorded(action_history').player
          IN  /\ chips'[idx] = 0
              /\ LastRecorded(action_history').amount = player_bet'[idx]
              /\ player_bet'[idx] = player_bet[idx] + chips[idx]]_vars

\* What a betting round's completion depends on.
RoundState ==
    [chips |-> chips, player_bet |-> player_bet, folded |-> folded, pot |-> pot,
     current_bet |-> current_bet, last_raiser |-> last_raiser,
     acted_since_last_raise |-> acted_since_last_raise, current_idx |-> current_idx,
     complete |-> FALSE]

\* The same after the seat to act has answered with decision.
RoundStateAfter(decision) ==
    LET idx == next_to_act
        v == validate_action(decision, PlayerOf(idx), build_information_set(idx))
        o == process_action(v.validated_action, idx)
        next_idx == (idx + 1) % NumPlayers
    IN  [chips |-> o.chips, player_bet |-> o.player_bet, folded |-> o.folded, pot |-> o.pot,
         current_bet |-> o.current_bet, last_raiser |-> o.last_raiser,
         acted_since_last_raise |-> o.acted_since_last_raise, current_idx |-> next_idx,
         complete |-> round_complete(o, next_idx)]

\* C35: no sequence of decisions keeps a betting round open for ever: an
\* applied action that leaves the round open cannot be answered by an action
\* that leaves the round open in the state it had before the two.
RoundsTerminate ==
    [][(pc = "act" /\ pc' = "act" /\ Len(action_history') = Len(action_history) + 1) =>
          \A decision \in (Decisions(next_to_act))' :
              (RoundStateAfter(decision))' # RoundState]_vars

\* C36: when a betting round has returned with two or more seats not folded,
\* every such seat that still holds chips has put in as much this round as
\* the seat not folded that put in most.
BetsMatched ==
    (pc = "after_round" /\ count_active_players(folded) >= 2) =>
        \A i \in Seats :
            (~folded[i] /\ chips[i] > 0) =>
                \A j \in Seats : ~folded[j] => player_bet[j] <= player_bet[i]

\* C37: every applied action moves a non-negative number of chips from the
\* acting seat to the pot: within a betting round the pot never decreases, no
\* seat's chips increase and no seat's round contribution decreases.
ChipsFlowIntoThePot ==
    [][(pc = "act" /\ Len(action_history') = Len(action_history) + 1) =>
          LET idx == LastRecorded(action_history').player
          IN  /\ pot' >= pot
              /\ pot' - pot = chips[idx] - chips'[idx]
              /\ \A i \in Seats :
                    /\ chips'[i] <= chips[i]
                    /\ player_bet'[i] >= player_bet[i]]_vars

\* C38: the minimum call amount in the information set built for the seat
\* about to act is not negative and is what the seat must add to match the
\* highest round contribution at the table.
MinCallAmountIsTheShortfall ==
    (pc = "act" /\ SkipCandidates # {}) =>
        LET i == next_to_act
            highest == MaxOf({player_bet[j] : j \in Seats})
        IN  /\ build_information_set(i).min_call_amount >= 0
            /\ build_information_set(i).min_call_amount = highest - player_bet[i]

\* C39: the score of a seat's cards is the same for every ordering of the
\* cards and every split of them between hole cards and community cards: it
\* is that of the cards listed lowest first and of the cards listed highest
\* first, wherever the list is split.
EvaluatorOrderIndependent ==
    pc = "evaluated" =>
        \A i \in Seats :
            \A ascending \in BOOLEAN :
                LET o == ListOf(CardsOf(i), ascending)
                IN  \A n \in 0..Len(o) :
                        evaluate(SubSeq(o, 1, n), SubSeq(o, n + 1, Len(o))) = hand_scores[i]


\* The order of Python tuples (category, kickers) on two scores.
ScoreLess(a, b) == LexLess(<<a[1]>> \o a[2], <<b[1]>> \o b[2])

\* The list cards without its k-th entry.
Without(cards, k) == SubSeq(cards, 1, k - 1) \o SubSeq(cards, k + 1, Len(cards))

\* C40: a further community card never lowers the score: the score of six or
\* seven cards is not below the score of the same hole cards with any one of
\* the community cards left out.
EvaluatorMonotone ==
    (pc = "evaluated" /\ Len(community_cards) >= 4) =>
        \A i \in Seats :
            \A k \in DOMAIN community_cards :
                ~ScoreLess(hand_scores[i], evaluate(hands[i], Without(community_cards, k)))
====
